---- MODULE Spec2Model ----
(***************************************************************************)
(* Release-announcement bot (src/bot.py): two discord.ext.tasks loops,     *)
(* poll_modtale and poll_curseforge, share one JsonCache (the in-memory    *)
(* seen sets and the file cache.json).  Strings that the code converts,    *)
(* strips or sorts (item ids) are sequences of character codes; stream     *)
(* keys and JSON field names, which the code only uses as dictionary keys, *)
(* are TLA+ strings.                                                       *)
(***************************************************************************)
EXTENDS Integers, Sequences, FiniteSets, TLC

(* ------------------------------ bounds --------------------------------- *)
\* ticks the two loops begin, together
MaxTicks == 2
\* times the process is stopped and started again
MaxRestarts == 1

(* --------------------------- Python strings ---------------------------- *)
\* str.strip() without arguments removes these code points at both ends
Whitespace == {9, 10, 11, 12, 13, 32}

RECURSIVE LStrip(_)
LStrip(s) ==
    IF s # <<>> /\ Head(s) \in Whitespace THEN LStrip(Tail(s)) ELSE s

RECURSIVE RStrip(_)
RStrip(s) ==
    IF s # <<>> /\ s[Len(s)] \in Whitespace
    THEN RStrip(SubSeq(s, 1, Len(s) - 1))
    ELSE s

Strip(s) == RStrip(LStrip(s))

\* str(n) of a non-negative int: its decimal digits, '0' being code 48
RECURSIVE StrOfInt(_)
StrOfInt(n) ==
    IF n < 10 THEN <<48 + n>> ELSE Append(StrOfInt(n \div 10), 48 + (n % 10))

\* the order of Python's str comparison: by code point, a prefix first
RECURSIVE StrLess(_, _)
StrLess(a, b) ==
    IF b = <<>> THEN FALSE
    ELSE IF a = <<>> THEN TRUE
    ELSE IF Head(a) # Head(b) THEN Head(a) < Head(b)
    ELSE StrLess(Tail(a), Tail(b))

\* sorted(v) of a set of strings
RECURSIVE Sorted(_)
Sorted(S) ==
    IF S = {} THEN <<>>
    ELSE LET m == CHOOSE x \in S : \A y \in S \ {x} : StrLess(x, y)
         IN  <<m>> \o Sorted(S \ {m})

(* ----------------------------- JSON values ----------------------------- *)
JNull == [t |-> "null"]
JStr(s) == [t |-> "str", s |-> s]
JInt(n) == [t |-> "int", n |-> n]
JArr(a) == [t |-> "arr", a |-> a]
\* an object is a function from its keys (TLA+ strings) to JSON values
JObj(o) == [t |-> "obj", o |-> o]

\* Python truthiness of a decoded JSON value (the `x or default` idiom)
Falsy(v) ==
    \/ v.t = "null"
    \/ v.t = "str" /\ v.s = <<>>
    \/ v.t = "int" /\ v.n = 0
    \/ v.t = "arr" /\ v.a = <<>>
    \/ v.t = "obj" /\ DOMAIN v.o = {}

\* str(x) of a decoded JSON scalar; str(None) is the text None
PyStr(v) ==
    CASE v.t = "str" -> v.s
      [] v.t = "int" -> StrOfInt(v.n)
      [] v.t = "null" -> <<78, 111, 110, 101>>

\* d.get(key) and d.get(key, default) of a decoded JSON object
Get(d, key, default) ==
    IF key \in DOMAIN d.o THEN d.o[key] ELSE default

Range(s) == {s[i] : i \in DOMAIN s}

(* ------------------------ files of the cache --------------------------- *)
\* A file is absent, or holds the serialisation of one JSON document, whole
\* (complete) or cut short (any proper prefix: json.load raises on each).
Absent == [t |-> "absent"]
Text(body, complete) == [t |-> "text", body |-> body, complete |-> complete]

NoSeen == [k \in {} |-> {}]

\* set(map(str, v or [])) raises for a truthy v that is not iterable
IterRaises(v) == ~Falsy(v) /\ v.t \notin {"arr", "str"}

\* the strings are stripped when they are read back
StrSetStripped(v) ==
    IF Falsy(v) THEN {}
    ELSE IF v.t = "arr" THEN {Strip(PyStr(e)) : e \in Range(v.a)}
    ELSE {<<c>> : c \in Range(v.s)}

\* set(map(str, v or [])): a list gives its elements' strings, a string its
\* characters
StrSet(v) ==
    IF Falsy(v) THEN {}
    ELSE IF v.t = "arr" THEN {PyStr(e) : e \in Range(v.a)}
    ELSE {<<c>> : c \in Range(v.s)}

\* (data.get(name) or {}) of load()
SeenField(data, name) ==
    LET raw == Get(data, name, JNull)
    IN  IF Falsy(raw) THEN JObj(NoSeen) ELSE raw

\* the dict comprehension of load() raises: no .items(), or a value that
\* cannot be iterated
SeenFieldRaises(data, name) ==
    LET m == SeenField(data, name)
    IN  \/ m.t # "obj"
        \/ \E k \in DOMAIN m.o : IterRaises(m.o[k])

SeenFieldValue(data, name) ==
    LET m == SeenField(data, name)
    IN  [k \in DOMAIN m.o |-> StrSet(m.o[k])]

\* json.load(f) raises, or data.get does (data is not an object)
ParseRaises(f) == ~f.complete \/ f.body.t # "obj"

\* load() raises inside its try block
LoadRaises(f) ==
    \/ ParseRaises(f)
    \/ SeenFieldRaises(f.body, "modtale_seen")
    \/ SeenFieldRaises(f.body, "curseforge_seen")

\* a load() that leaves the dictionaries of the constructor
LoadNothing(f) == [modtale_seen |-> NoSeen, curseforge_seen |-> NoSeen]

\* JsonCache.load on a fresh cache: the two dictionaries it leaves
Load(f) ==
    IF f = Absent \/ LoadRaises(f)
    THEN [modtale_seen |-> NoSeen, curseforge_seen |-> NoSeen]
    ELSE [modtale_seen |-> SeenFieldValue(f.body, "modtale_seen"),
          curseforge_seen |-> SeenFieldValue(f.body, "curseforge_seen")]

\* {k: sorted(v) for k, v in seen.items()}
SortedLists(seen) ==
    JObj([k \in DOMAIN seen |->
            JArr([i \in 1..Cardinality(seen[k]) |-> JStr(Sorted(seen[k])[i])])])

\* the document save() writes
Data(mt, cf) ==
    JObj([modtale_seen |-> SortedLists(mt), curseforge_seen |-> SortedLists(cf)])

\* seen[key] = set(): an existing set is replaced by an empty one
ResetKey(seen, key) == (key :> {}) @@ seen

\* dict.setdefault(key, set())
SetDefault(seen, key) ==
    IF key \in DOMAIN seen THEN seen ELSE seen @@ (key :> {})

(* --------------------------- change detection -------------------------- *)
\* str(v.get("id", "")).strip()
ModtaleId(v) == Strip(PyStr(Get(v, "id", JStr(<<>>))))

\* str(f.get("id"))
CurseforgeId(f) == PyStr(Get(f, "id", JNull))

ListOrEmpty(project_json, name) ==
    LET raw == Get(project_json, name, JNull)
    IN  IF Falsy(raw) THEN <<>> ELSE raw.a

IsNewModtale(v, seen) == ModtaleId(v) # <<>> /\ ModtaleId(v) \notin seen

\* a first poll that only records what the feed lists and announces nothing
pick_after_first_poll(project_json, seen) ==
    IF seen = {} THEN <<>>
    ELSE SelectSeq(ListOrEmpty(project_json, "versions"),
                   LAMBDA v : IsNewModtale(v, seen))

pick_new_modtale_versions(project_json, seen) ==
    SelectSeq(ListOrEmpty(project_json, "versions"),
              LAMBDA v : IsNewModtale(v, seen))

RECURSIVE FirstOccurrences(_, _)
FirstOccurrences(files, seen) ==
    IF files = <<>> THEN <<>>
    ELSE LET f == Head(files)
             fid == Get(f, "id", JNull)
         IN  IF fid = JNull \/ PyStr(fid) \in seen
             THEN FirstOccurrences(Tail(files), seen)
             ELSE <<f>> \o FirstOccurrences(Tail(files), seen \cup {PyStr(fid)})

parse_cfwidget_files(project_json) ==
    FirstOccurrences(ListOrEmpty(project_json, "files"), {})

IsNewCurseforge(f, seen) == CurseforgeId(f) \notin seen

\* [f for f in files if str(f.get("id")) not in seen]
NewFiles(project_json, seen) ==
    SelectSeq(parse_cfwidget_files(project_json),
              LAMBDA f : IsNewCurseforge(f, seen))

Reversed(s) == [i \in 1..Len(s) |-> s[Len(s) + 1 - i]]

(* ------------------------------- inputs -------------------------------- *)
v1 == <<118, 49>>
v2 == <<118, 50>>
v3 == <<118, 51>>
v2_padded == <<32, 118, 50>>

Item(id) == JObj([id |-> id])
Unidentified == JObj([versionNumber |-> JStr(v1)])

Versions(items) == JObj([versions |-> JArr(items)])
FilesDoc(items) == JObj([files |-> JArr(items)])

\* project documents the Modtale API may answer with, versions newest first,
\* for each project of the configurations below
ModtaleFeeds(key) ==
    CASE key = "mA" ->
           { Versions(<<Item(JStr(v3)), Item(JStr(v2)), Item(JStr(v1))>>),
             Versions(<<Item(JStr(v1))>>),
             Versions(<<Item(JStr(v2_padded)), Unidentified, Item(JStr(v2))>>) }
      [] key = "mB" ->
           { Versions(<<Item(JStr(v1))>>) }
      [] key = "mS" ->
           { Versions(<<Item(JStr(v2)), Item(JStr(v1))>>),
             Versions(<<Item(JStr(v1))>>) }

\* project documents cfwidget may answer with, files newest first
CurseforgeFeeds(key) ==
    CASE key = "cA" ->
           { FilesDoc(<<Item(JInt(3)), Item(JInt(2)), Item(JInt(1))>>),
             FilesDoc(<<Item(JInt(1))>>),
             FilesDoc(<<Item(JInt(2)), Item(JNull), Item(JStr(StrOfInt(2)))>>),
             JObj([title |-> JStr(v1)]) }
      [] key = "cB" ->
           { FilesDoc(<<Item(JInt(1))>>) }
      [] key = "cS" ->
           { FilesDoc(<<Item(JInt(2)), Item(JInt(1))>>),
             FilesDoc(<<Item(JInt(1))>>) }

Loops == {"modtale", "curseforge"}

Feeds(L, key) == IF L = "modtale" THEN ModtaleFeeds(key) ELSE CurseforgeFeeds(key)

\* configurations load_config may return: one project for each loop, one
\* project for one loop, two projects for one loop
BothLoops == [modtale_projects |-> <<"mS">>, curseforge_projects |-> <<"cS">>]
OnlyModtale == [modtale_projects |-> <<"mA">>, curseforge_projects |-> <<>>]
OnlyCurseforge == [modtale_projects |-> <<>>, curseforge_projects |-> <<"cA">>]

Configs ==
    { BothLoops, OnlyModtale, OnlyCurseforge,
      [modtale_projects |-> <<"mS", "mB">>, curseforge_projects |-> <<>>],
      [modtale_projects |-> <<>>, curseforge_projects |-> <<"cS", "cB">>] }

\* what an earlier run that announced v1 and file 1 left in cache.json
EarlierData ==
    Data([k \in {"mA", "mS"} |-> {v1}], [k \in {"cA", "cS"} |-> {StrOfInt(1)}])

\* cache.json when the process starts: absent, written by an earlier run,
\* cut short, not an object, one mapping a list, one value a string
InitFiles ==
    { Absent,
      Text(EarlierData, TRUE),
      Text(EarlierData, FALSE),
      Text(JArr(<<>>), TRUE),
      Text(JObj([modtale_seen |-> SortedLists("mA" :> {v1}),
                 curseforge_seen |-> JArr(<<JInt(1)>>)]), TRUE),
      Text(JObj([modtale_seen |-> JObj("mA" :> JStr(v1)),
                 curseforge_seen |-> JObj(NoSeen)]), TRUE) }

(* -------------------------------- state -------------------------------- *)
VARIABLES
    cfg,              \* the Config of load_config
    modtale_seen,     \* cache.modtale_seen
    curseforge_seen,  \* cache.curseforge_seen
    file,             \* the file at CACHE_FILE
    tmp,              \* the file at CACHE_FILE + ".tmp"
    http_session,     \* TRUE when http_session is not None
    client,           \* "new", "connecting", "ready", "closed"
    pc,               \* where each loop is
    pidx,             \* index of the project p of the for loop, 0 outside it
    project_json,     \* the document of the last fetch of the running batch
    new_items,        \* the items of the running batch, in dispatch order
    idx,              \* position in new_items of the item being sent
    ticks,            \* ticks begun so far
    restarts,         \* process restarts so far
    tasks,            \* for each loop, the calls of start() in this process
                      \* and how many of the tasks they made are done
    \* history, read by the properties only
    loaded,           \* the seen sets cache.load() left at the last start
    written,          \* the seen sets save() serialised into file, or NoData
    sent_ok,          \* <<loop, key, id>> of sends that returned, this lifetime
    stopped,          \* what the stops so far found: the sends that had
                      \* returned and were marked, those of them that save()
                      \* had written (saved) and the others (unsaved), and
                      \* whether the last stop was inside save() (at)
    sends,            \* ids sent in the running or last batch of each loop
    report,           \* how the last finished batch of each loop ended
    clean             \* <<key, document>> of batches whose sends all returned

vars == <<cfg, modtale_seen, curseforge_seen, file, tmp, http_session, client,
          pc, pidx, project_json, new_items, idx, ticks, restarts, tasks,
          loaded, written, sent_ok, stopped, sends, report, clean>>

NoData == [t |-> "none"]
NoJson == JNull
NoReport == [outcome |-> "none"]
NoTasks == [L \in Loops |-> [started |-> 0, done |-> 0]]

Projects(L) == IF L = "modtale" THEN cfg.modtale_projects ELSE cfg.curseforge_projects
SeenOf(L) == IF L = "modtale" THEN modtale_seen ELSE curseforge_seen
Key(L) == Projects(L)[pidx[L]]
Cache == [modtale_seen |-> modtale_seen, curseforge_seen |-> curseforge_seen]

\* save() runs without awaiting: while a loop is inside it the other loop and
\* the client's handlers do not run
SavePcs == {"save_open", "save_dump", "save_replace"}

\* save() gives up control between its steps (an awaited write)
SaveYields == FALSE

InSave == \E L \in Loops : pc[L] \in SavePcs

IdOf(L, item) == IF L = "modtale" THEN ModtaleId(item) ELSE CurseforgeId(item)
Ids(L, items) == [i \in 1..Len(items) |-> IdOf(L, items[i])]

Init ==
    /\ cfg \in Configs
    /\ file \in InitFiles
    /\ cfg # OnlyModtale => file \in {Absent, Text(EarlierData, TRUE)}
    /\ tmp = Absent
    /\ modtale_seen = Load(file).modtale_seen
    /\ curseforge_seen = Load(file).curseforge_seen
    /\ loaded = Load(file)
    /\ written = NoData
    /\ http_session = FALSE
    /\ client = "new"
    /\ pc = [L \in Loops |-> "off"]
    /\ pidx = [L \in Loops |-> 0]
    /\ project_json = [L \in Loops |-> NoJson]
    /\ new_items = [L \in Loops |-> <<>>]
    /\ idx = [L \in Loops |-> 0]
    /\ ticks = 0
    /\ restarts = 0
    /\ tasks = NoTasks
    /\ sent_ok = {}
    /\ stopped = [saved |-> {}, unsaved |-> {}, at |-> "none"]
    /\ sends = [L \in Loops |-> <<>>]
    /\ report = [L \in Loops |-> NoReport]
    /\ clean = {}

(* ------------------------------ lifecycle ------------------------------ *)
locals == <<pidx, project_json, new_items, idx>>
cache == <<modtale_seen, curseforge_seen>>
files == <<file, tmp, written>>
history == <<sent_ok, sends, report, clean>>
process == <<cfg, loaded, stopped, restarts>>
startup == <<process, tasks>>

\* run_bot: the session is created, then client.start connects
RunBot ==
    /\ ~InSave
    /\ client = "new"
    /\ http_session' = TRUE
    /\ client' = "connecting"
    /\ UNCHANGED <<cache, files, pc, locals, ticks, history, startup>>

\* Loop.is_running(): the loop has a task that is not done
is_running(L) == pc[L] \notin {"off", "failed"}

\* on_ready starts every loop whose project list is not empty
StartWhenConfigured(L) == Projects(L) # <<>>

\* on_ready starts a loop whose project list is not empty and that is not running
StartIn(L) == Projects(L) # <<>> /\ ~is_running(L)

\* poll_x.start(): a new task of the loop
Started(t) == [t EXCEPT !.started = @ + 1]

\* the task of the loop is done
Done(t) == [t EXCEPT !.done = @ + 1]

on_ready ==
    /\ ~InSave
    /\ client \in {"connecting", "ready"}
    /\ client' = "ready"
    /\ http_session' = TRUE
    /\ pc' = [L \in Loops |-> IF StartIn(L) THEN "before" ELSE pc[L]]
    /\ tasks' = [L \in Loops |-> IF StartIn(L) THEN Started(tasks[L]) ELSE tasks[L]]
    /\ UNCHANGED <<cache, files, locals, ticks, history, process>>

\* the finally block of run_bot, once client.start has returned
Close ==
    /\ ~InSave
    /\ client \in {"connecting", "ready"}
    /\ client' = "closed"
    /\ http_session' = FALSE
    /\ UNCHANGED <<cache, files, pc, locals, ticks, history, startup>>

\* before_loop: wait_until_ready, then sleep
before_loop(L) ==
    /\ ~InSave
    /\ pc[L] = "before"
    /\ client = "ready"
    /\ pc' = [pc EXCEPT ![L] = "idle"]
    /\ UNCHANGED <<cache, files, http_session, client, locals, ticks,
                   history, startup>>

(* -------------------------------- a tick ------------------------------- *)
\* the guard is missing: the tick goes on to get_target_channel
TickRunsWithoutSession(L) ==
    /\ ~InSave
    /\ pc[L] = "idle"
    /\ ticks < MaxTicks
    /\ ~http_session
    /\ ticks' = ticks + 1
    /\ pc' = [pc EXCEPT ![L] = "channel"]
    /\ report' = [report EXCEPT ![L] = [outcome |-> "nosession"]]
    /\ UNCHANGED <<cache, files, http_session, client, locals,
                   sent_ok, sends, clean, startup>>

\* if http_session is None: return
TickWithoutSession(L) ==
    /\ ~InSave
    /\ pc[L] = "idle"
    /\ ticks < MaxTicks
    /\ ~http_session
    /\ ticks' = ticks + 1
    /\ report' = [report EXCEPT ![L] = [outcome |-> "nosession"]]
    /\ UNCHANGED <<cache, files, http_session, client, pc, locals,
                   sent_ok, sends, clean, startup>>

\* the tick reaches: channel = await get_target_channel()
TickBegins(L) ==
    /\ ~InSave
    /\ pc[L] = "idle"
    /\ http_session
    /\ pc' = [pc EXCEPT ![L] = "channel"]
    /\ UNCHANGED <<cache, files, http_session, client, locals,
                   history, startup>>

TickStart(L) ==
    /\ ticks < MaxTicks
    /\ ticks' = ticks + 1
    /\ TickBegins(L)

\* get_target_channel returns a text channel: the for loop begins
ChannelOk(L) ==
    /\ ~InSave
    /\ pc[L] = "channel"
    /\ pc' = [pc EXCEPT ![L] = "fetch"]
    /\ pidx' = [pidx EXCEPT ![L] = 1]
    /\ UNCHANGED <<cache, files, http_session, client, project_json, new_items,
                   idx, ticks, history, startup>>

\* get_target_channel raises (fetch_channel fails, or the channel is not a
\* text channel).  The await is outside the try block of the tick, so the
\* exception leaves the coroutine and ends the task of the tasks.loop.
ChannelRaises(L) ==
    /\ ~InSave
    /\ pc[L] = "channel"
    /\ pc' = [pc EXCEPT ![L] = "failed"]
    /\ tasks' = [tasks EXCEPT ![L] = Done(@)]
    /\ UNCHANGED <<cache, files, http_session, client, locals, ticks,
                   history, process>>

\* the try block encloses the for loop: the tick returns
Return(L) ==
    /\ pc' = [pc EXCEPT ![L] = "idle"]
    /\ pidx' = [pidx EXCEPT ![L] = 0]

\* the for loop goes to its next project, or the tick returns
Advance(L) ==
    IF pidx[L] < Len(Projects(L))
    THEN /\ pc' = [pc EXCEPT ![L] = "fetch"]
         /\ pidx' = [pidx EXCEPT ![L] = @ + 1]
    ELSE /\ pc' = [pc EXCEPT ![L] = "idle"]
         /\ pidx' = [pidx EXCEPT ![L] = 0]

DropBatch(L) ==
    /\ project_json' = [project_json EXCEPT ![L] = NoJson]
    /\ new_items' = [new_items EXCEPT ![L] = <<>>]
    /\ idx' = [idx EXCEPT ![L] = 0]
    /\ sends' = [sends EXCEPT ![L] = <<>>]

\* the batch of project p ends: by the except clauses or after cache.save()
EndBatch(L, outcome) ==
    /\ report' = [report EXCEPT ![L] =
                    [outcome |-> outcome, key |-> Key(L), json |-> project_json[L],
                     order |-> Ids(L, new_items[L]), sent |-> Len(sends[L])]]
    /\ clean' = IF outcome = "sendfail" THEN clean
                ELSE clean \cup {<<L, Key(L), project_json[L]>>}
    /\ DropBatch(L)
    /\ Advance(L)

\* the except clause of the project calls cache.save()
FetchRaisesThenSaves(L) ==
    /\ ~InSave
    /\ pc[L] = "fetch"
    /\ pc' = [pc EXCEPT ![L] = "save_open"]
    /\ report' = [report EXCEPT ![L] = [outcome |-> "fetchfail", key |-> Key(L)]]
    /\ UNCHANGED <<cache, files, http_session, client, locals, ticks,
                   sent_ok, sends, clean, startup>>

\* fetch_json raises: HTTP error status, network error, timeout, no session
FetchRaises(L) ==
    /\ ~InSave
    /\ pc[L] = "fetch"
    /\ Advance(L)
    /\ report' = [report EXCEPT ![L] = [outcome |-> "fetchfail", key |-> Key(L)]]
    /\ UNCHANGED <<cache, files, http_session, client, project_json, new_items,
                   idx, ticks, sent_ok, sends, clean, startup>>

\* for v in new_versions
ModtaleDispatch(project, seen) == pick_new_modtale_versions(project, seen)

\* for f in reversed(new_files)
CurseforgeDispatch(doc, seen) == Reversed(NewFiles(doc, seen))

\* the seen dictionary after the fetch: get_modtale_seen always runs,
\* get_curseforge_seen only when the document lists a file
SeenAtDetect(L, json) ==
    IF L = "curseforge" /\ parse_cfwidget_files(json) = <<>>
    THEN SeenOf(L)
    ELSE SetDefault(SeenOf(L), Key(L))

\* the items to send, in the order of the for loop over them
Dispatch(L, json) ==
    IF L = "modtale"
    THEN ModtaleDispatch(json, SeenAtDetect(L, json)[Key(L)])
    ELSE IF parse_cfwidget_files(json) = <<>> THEN <<>>
    ELSE CurseforgeDispatch(json, SeenAtDetect(L, json)[Key(L)])

SetSeen(L, seen) ==
    IF L = "modtale"
    THEN modtale_seen' = seen /\ UNCHANGED curseforge_seen
    ELSE curseforge_seen' = seen /\ UNCHANGED modtale_seen

\* fetch_json returns a document; the new items are computed without awaiting
Fetch(L) ==
    /\ ~InSave
    /\ pc[L] = "fetch"
    /\ http_session
    /\ \E json \in Feeds(L, Key(L)) :
         /\ SetSeen(L, SeenAtDetect(L, json))
         /\ IF Dispatch(L, json) = <<>>
            THEN /\ Advance(L)
                 /\ clean' = clean \cup {<<L, Key(L), json>>}
                 /\ report' = [report EXCEPT ![L] =
                                 [outcome |-> "nothing", key |-> Key(L), json |-> json,
                                  again |-> <<L, Key(L), json>> \in clean]]
                 /\ UNCHANGED <<project_json, new_items, idx, sends>>
            ELSE /\ project_json' = [project_json EXCEPT ![L] = json]
                 /\ new_items' = [new_items EXCEPT ![L] = Dispatch(L, json)]
                 /\ idx' = [idx EXCEPT ![L] = 1]
                 /\ sends' = [sends EXCEPT ![L] = <<>>]
                 /\ pc' = [pc EXCEPT ![L] = "send"]
                 /\ UNCHANGED <<pidx, clean, report>>
    /\ UNCHANGED <<files, http_session, client, ticks, sent_ok, startup>>

\* the item is added to a copy of the set, the cache keeps the old one
MarkCopy(seen, key, id) == seen

\* seen.add(id)
Mark(seen, key, id) == [seen EXCEPT ![key] = @ \cup {id}]

\* cache.save() inside the for loop over the new items: it runs after each send
SendOkThenSave(L) ==
    /\ ~InSave
    /\ pc[L] = "send"
    /\ client # "closed"
    /\ LET id == IdOf(L, new_items[L][idx[L]])
       IN  /\ SetSeen(L, Mark(SeenOf(L), Key(L), id))
           /\ sent_ok' = sent_ok \cup {<<L, Key(L), id>>}
           /\ sends' = [sends EXCEPT ![L] = Append(@, id)]
    /\ pc' = [pc EXCEPT ![L] = "save_open"]
    /\ UNCHANGED <<files, http_session, client, pidx, project_json, new_items,
                   idx, ticks, report, clean, startup>>

\* channel.send returns: the item is marked; after the last item save() begins
SendOk(L) ==
    /\ ~InSave
    /\ pc[L] = "send"
    /\ client # "closed"
    /\ LET id == IdOf(L, new_items[L][idx[L]])
       IN  /\ SetSeen(L, Mark(SeenOf(L), Key(L), id))
           /\ sent_ok' = sent_ok \cup {<<L, Key(L), id>>}
           /\ sends' = [sends EXCEPT ![L] = Append(@, id)]
    /\ IF idx[L] < Len(new_items[L])
       THEN idx' = [idx EXCEPT ![L] = @ + 1] /\ UNCHANGED pc
       ELSE pc' = [pc EXCEPT ![L] = "save_open"] /\ UNCHANGED idx
    /\ UNCHANGED <<files, http_session, client, pidx, project_json, new_items,
                   ticks, report, clean, startup>>

\* the except clause marks the item whose send raised
MarkedDespiteFailure(seen, key, id) == [seen EXCEPT ![key] = @ \cup {id}]

\* seen.add placed before the await of channel.send
MarkedBeforeSend(seen, key, id) == Mark(seen, key, id)

\* the seen dictionary when channel.send raised: seen.add is not reached
AfterFailedSend(seen, key, id) == seen

\* channel.send raises: the except clause ends the batch, save() is not reached
SendRaises(L) ==
    /\ ~InSave
    /\ pc[L] = "send"
    /\ SetSeen(L, AfterFailedSend(SeenOf(L), Key(L), IdOf(L, new_items[L][idx[L]])))
    /\ EndBatch(L, "sendfail")
    /\ UNCHANGED <<files, http_session, client, ticks, sent_ok, startup>>

(* ------------------------------- save() -------------------------------- *)
\* open(self.path, "w"): the cache file itself is truncated and written
OpenedInPlace(f, t, data) == [file |-> Text(data, FALSE), tmp |-> t]

\* data = {...}; open(tmp, "w"): the temp file exists and is empty, a prefix
\* of the document
Opened(f, t, data) == [file |-> f, tmp |-> Text(data, FALSE)]

SaveOpen(L) ==
    /\ pc[L] = "save_open"
    /\ file' = Opened(file, tmp, Data(modtale_seen, curseforge_seen)).file
    /\ tmp' = Opened(file, tmp, Data(modtale_seen, curseforge_seen)).tmp
    /\ pc' = [pc EXCEPT ![L] = "save_dump"]
    /\ UNCHANGED <<cache, written, http_session, client, locals, ticks,
                   history, startup>>

\* json.dump(data, f) and the close of the with block: the temp file is whole
Dumped(f, t, data) == [file |-> f, tmp |-> Text(data, TRUE)]

SaveDump(L) ==
    /\ pc[L] = "save_dump"
    /\ file' = Dumped(file, tmp, Data(modtale_seen, curseforge_seen)).file
    /\ tmp' = Dumped(file, tmp, Data(modtale_seen, curseforge_seen)).tmp
    /\ pc' = [pc EXCEPT ![L] = "save_replace"]
    /\ UNCHANGED <<cache, written, http_session, client, locals, ticks,
                   history, startup>>

\* the files after os.replace(tmp, self.path)
Replaced(f, t) == [file |-> t, tmp |-> Absent]

\* os.replace, then the batch of this project is over
SaveReplace(L) ==
    /\ pc[L] = "save_replace"
    /\ file' = Replaced(file, tmp).file
    /\ tmp' = Replaced(file, tmp).tmp
    /\ written' = Cache
    /\ EndBatch(L, "ok")
    /\ UNCHANGED <<cache, http_session, client, ticks, sent_ok, startup>>

\* the except clause takes back the marks of the batch that was not saved
MarksTakenBack(seen, key, ids) == [seen EXCEPT ![key] = @ \ ids]

\* the seen dictionary when save() raised: the except clause only prints
AfterFailedSave(seen, key, ids) == seen

\* open, write or os.replace raises OSError: the except clause ends the batch
SaveRaises(L) ==
    /\ pc[L] \in SavePcs
    /\ SetSeen(L, AfterFailedSave(SeenOf(L), Key(L), Range(Ids(L, new_items[L]))))
    /\ EndBatch(L, "savefail")
    /\ UNCHANGED <<files, http_session, client, ticks, sent_ok, startup>>

(* ------------------------------- restart ------------------------------- *)
\* sends that returned and whose id is in the in-memory seen set
SentAndMarked ==
    {s \in sent_ok : s[2] \in DOMAIN SeenOf(s[1]) /\ s[3] \in SeenOf(s[1])[s[2]]}

\* the last save() that reached os.replace wrote the id of this send
InWritten(s) ==
    /\ written # NoData
    /\ LET seen == IF s[1] = "modtale" THEN written.modtale_seen
                   ELSE written.curseforge_seen
       IN  s[2] \in DOMAIN seen /\ s[3] \in seen[s[2]]

\* where save() is when the process stops
SaveStep ==
    IF InSave THEN pc[CHOOSE L \in Loops : pc[L] \in SavePcs] ELSE "none"

\* the process stops at any point and is started again: the module is
\* imported, cache.load() reads the file as it is
Restart ==
    /\ restarts < MaxRestarts
    /\ restarts' = restarts + 1
    /\ modtale_seen' = Load(file).modtale_seen
    /\ curseforge_seen' = Load(file).curseforge_seen
    /\ loaded' = Load(file)
    /\ stopped' = [saved |-> stopped.saved \cup {s \in SentAndMarked : InWritten(s)},
                   unsaved |-> stopped.unsaved \cup {s \in SentAndMarked : ~InWritten(s)},
                   at |-> SaveStep]
    /\ http_session' = FALSE
    /\ client' = "new"
    /\ pc' = [L \in Loops |-> "off"]
    /\ tasks' = NoTasks
    /\ pidx' = [L \in Loops |-> 0]
    /\ project_json' = [L \in Loops |-> NoJson]
    /\ new_items' = [L \in Loops |-> <<>>]
    /\ idx' = [L \in Loops |-> 0]
    /\ sent_ok' = {}
    /\ sends' = [L \in Loops |-> <<>>]
    /\ report' = [L \in Loops |-> NoReport]
    /\ clean' = {}
    /\ UNCHANGED <<cfg, files, ticks>>

Next ==
    \/ RunBot
    \/ on_ready
    \/ Close
    \/ Restart
    \/ \E L \in Loops :
         \/ before_loop(L)
         \/ TickWithoutSession(L)
         \/ TickStart(L)
         \/ ChannelOk(L)
         \/ ChannelRaises(L)
         \/ FetchRaises(L)
         \/ Fetch(L)
         \/ SendOk(L)
         \/ SendRaises(L)
         \/ SaveOpen(L)
         \/ SaveDump(L)
         \/ SaveReplace(L)
         \/ SaveRaises(L)

Spec == Init /\ [][Next]_vars

(* ------------------- what the properties talk about -------------------- *)
\* the ids a seen dictionary holds for a key, none when the key is missing
IdsIn(seen, key) == IF key \in DOMAIN seen THEN seen[key] ELSE {}

SeenIds(L, key) == IdsIn(SeenOf(L), key)
LoadedIds(L, key) ==
    IdsIn(IF L = "modtale" THEN loaded.modtale_seen ELSE loaded.curseforge_seen, key)
FileIds(L, key) ==
    IdsIn(IF L = "modtale" THEN Load(file).modtale_seen
          ELSE Load(file).curseforge_seen, key)
SentIds(L, key) == {s[3] : s \in {x \in sent_ok : x[1] = L /\ x[2] = key}}

Streams == {<<"modtale", k>> : k \in {"mA", "mB", "mS"}}
              \cup {<<"curseforge", k>> : k \in {"cA", "cB", "cS"}}

\* the listing of a fetched document, as the source gave it
Listing(L, json) ==
    IF L = "modtale" THEN ListOrEmpty(json, "versions") ELSE ListOrEmpty(json, "files")

\* the ids of the items of a document that have an id
CandidateIds(L, json) ==
    IF L = "modtale"
    THEN {ModtaleId(v) : v \in Range(Listing(L, json))} \ {<<>>}
    ELSE {PyStr(Get(f, "id", JNull)) :
            f \in {g \in Range(Listing(L, json)) : Get(g, "id", JNull) # JNull}}

\* the first place of an id in the listing of a document
Place(L, json, id) ==
    CHOOSE i \in DOMAIN Listing(L, json) :
        /\ IdOf(L, Listing(L, json)[i]) = id
        /\ \A j \in 1..(i - 1) : IdOf(L, Listing(L, json)[j]) # id

\* the last finished batch of loop L had three new items and the send of the
\* second one raised
SecondOfThreeFailed(L) ==
    /\ report[L].outcome = "sendfail"
    /\ Len(report[L].order) = 3
    /\ report[L].sent = 1

(* C1: partial-failure safety.  When the send of the second of three new    *)
(* items raised, then at the end of the tick the first id is in the seen    *)
(* set and in the cache file, the second and third are in neither, and the  *)
(* next batch computed from the same document is exactly those two, in      *)
(* the same relative order.                                                 *)
C1_PartialFailureSafety ==
    \A L \in Loops :
        SecondOfThreeFailed(L) =>
            LET k == report[L].key
                o == report[L].order
            IN  /\ pc[L] = "idle" =>
                     /\ o[1] \in SeenIds(L, k)
                     /\ o[1] \in FileIds(L, k)
                     /\ {o[2], o[3]} \cap SeenIds(L, k) = {}
                     /\ {o[2], o[3]} \cap FileIds(L, k) = {}
                /\ (pc[L] = "send" /\ sends[L] = <<>> /\ Key(L) = k
                      /\ project_json[L] = report[L].json) =>
                     Ids(L, new_items[L]) = <<o[2], o[3]>>

(* C2: chronological dispatch order.  Within one batch the ids are sent     *)
(* oldest first: of two ids sent, the one sent earlier stands later in the  *)
(* newest-first listing of the fetched document; with seen set {v1} and     *)
(* the listing [v3, v2, v1] the sends are v2 then v3.                       *)
C2_OldestFirst ==
    \A L \in Loops :
        /\ \A a, b \in DOMAIN sends[L] :
             (a < b /\ sends[L][a] # sends[L][b]) =>
                Place(L, project_json[L], sends[L][a])
                    > Place(L, project_json[L], sends[L][b])
        /\ (report[L].outcome = "ok" /\ report[L].key = "mA"
              /\ Range(report[L].order) = {v2, v3}) =>
                report[L].order = <<v2, v3>>

(* C3: idempotence.  Once a batch of a stream ended with every send         *)
(* returned (or found nothing new), no later fetch of the same document in  *)
(* this process lifetime yields a new item, so nothing is sent for it.      *)
C3_Idempotence ==
    \A L \in Loops :
        pc[L] \in {"send"} \cup SavePcs =>
            <<L, Key(L), project_json[L]>> \notin clean

\* a document whose items were sent by an earlier batch was fetched again and
\* nothing was new
C3_Witness ==
    \E L \in Loops :
        /\ report[L].outcome = "nothing"
        /\ report[L].again
        /\ CandidateIds(L, report[L].json) # {}
        /\ CandidateIds(L, report[L].json) \subseteq SentIds(L, report[L].key)

(* C4: no mark without a successful send.  Every id in a seen set and every *)
(* id load() would read from the cache file was loaded at the start of the  *)
(* process or is the id of an item whose send has returned.                 *)
C4_NoMarkWithoutSend ==
    \A st \in Streams :
        /\ SeenIds(st[1], st[2]) \subseteq LoadedIds(st[1], st[2]) \cup SentIds(st[1], st[2])
        /\ FileIds(st[1], st[2]) \subseteq LoadedIds(st[1], st[2]) \cup SentIds(st[1], st[2])

\* the modtale loop has sent one of two new items and awaits the second send
\* while a save() of the curseforge loop has written the file
C4_Witness ==
    /\ cfg = BothLoops
    /\ pc["modtale"] = "send"
    /\ idx["modtale"] = 2
    /\ report["curseforge"].outcome = "ok"
    /\ Ids("modtale", new_items["modtale"])[1] \in FileIds("modtale", "mS")
    /\ Ids("modtale", new_items["modtale"])[2] \notin FileIds("modtale", "mS")

(* C5: crash-consistent persist.  In every state, so wherever the process   *)
(* stops, the cache file is one of the files the process may have started   *)
(* with (absent included) as long as no save() has reached os.replace, and  *)
(* after that the whole document of the seen sets the last such save()      *)
(* serialised, which load() reads back as exactly those sets; a process     *)
(* started again has loaded them.                                           *)
C5_CrashConsistentPersist ==
    /\ written = NoData => file \in InitFiles
    /\ written # NoData =>
         /\ file = Text(Data(written.modtale_seen, written.curseforge_seen), TRUE)
         /\ ~LoadRaises(file)
         /\ Load(file) = written
         /\ (client = "new" /\ restarts > 0) => Cache = written

\* the process stopped while json.dump was writing a later snapshot: the temp
\* file is cut short, the cache file holds the snapshot before, and the new
\* process has loaded it
C5_Witness ==
    /\ restarts > 0
    /\ client = "new"
    /\ stopped.at = "save_dump"
    /\ written # NoData
    /\ tmp # Absent
    /\ ~tmp.complete
    /\ tmp.body # file.body
    /\ Cache = written

\* at the detection of a batch every candidate whose id is not in the seen
\* set is in the batch, and a detection that found nothing left none out
UnmarkedAreNew ==
    \A L \in Loops :
        /\ (pc[L] = "send" /\ sends[L] = <<>>) =>
              \A id \in CandidateIds(L, project_json[L]) :
                  id \notin SeenIds(L, Key(L)) => id \in Range(Ids(L, new_items[L]))
        /\ report[L].outcome = "nothing" =>
              CandidateIds(L, report[L].json) \subseteq SeenIds(L, report[L].key)

(* C6 as claimed: restart behaviour.  An item that was sent and marked seen *)
(* before a stop is never sent after it, and an unmarked item of the feed   *)
(* is a new item again.                                                     *)
C6_Original ==
    /\ \A s \in sent_ok : s \notin stopped.saved \cup stopped.unsaved
    /\ UnmarkedAreNew

(* C6 as amended: an item that was sent and whose mark a save() had written *)
(* to the cache file before a stop is never sent after it, and an unmarked  *)
(* item of the feed is a new item again at the next detection of its stream.*)
C6_Restart ==
    /\ \A s \in sent_ok : s \notin stopped.saved
    /\ UnmarkedAreNew

\* ids some file the process may start with holds
InitIds ==
    UNION {UNION {Load(f).modtale_seen[k] : k \in DOMAIN Load(f).modtale_seen}
             \cup UNION {Load(f).curseforge_seen[k] : k \in DOMAIN Load(f).curseforge_seen}
           : f \in InitFiles}

\* after a stop that found a saved send, the stream of that send had a batch
\* whose sends all returned
C6_Witness ==
    /\ restarts > 0
    /\ \E s \in stopped.saved :
         /\ s[3] \notin InitIds
         /\ s[3] \in LoadedIds(s[1], s[2])
         /\ report[s[1]].outcome = "ok"
         /\ report[s[1]].key = s[2]

(* C7: monotonic seen growth.  Between two stops of the process no step     *)
(* removes a key or an id from a seen dictionary.                           *)
Grows(old, new) ==
    \A k \in DOMAIN old : k \in DOMAIN new /\ old[k] \subseteq new[k]

C7_MonotonicSeen ==
    [][restarts' = restarts =>
         /\ Grows(modtale_seen, modtale_seen')
         /\ Grows(curseforge_seen, curseforge_seen')]_vars

\* a batch ended by a failure, and the seen set of its stream holds the ids
\* loaded at the start and the ids sent since
C7_Witness ==
    \E L \in Loops :
        /\ report[L].outcome \in {"sendfail", "savefail"}
        /\ LoadedIds(L, report[L].key) # {}
        /\ SentIds(L, report[L].key) # {}
        /\ LoadedIds(L, report[L].key) \cup SentIds(L, report[L].key)
              \subseteq SeenIds(L, report[L].key)

(* ------------------- save() then load(), on any cache ------------------ *)
\* id strings: plain, padded, empty, and digits that sort before a shorter one
RoundTripIds == {v1, v2_padded, <<>>, StrOfInt(2), StrOfInt(10)}

Mappings(keys) ==
    UNION {[K -> SUBSET RoundTripIds] : K \in SUBSET keys}

\* the files after a save() that runs to its end
Saved(f, t, data) ==
    LET o == Opened(f, t, data)
        d == Dumped(o.file, o.tmp, data)
    IN  Replaced(d.file, d.tmp)

InitRoundTrip ==
    /\ cfg = BothLoops
    /\ modtale_seen \in Mappings({"mA", "mB"})
    /\ curseforge_seen \in Mappings({"cA"})
    /\ file \in {Absent, Text(EarlierData, FALSE)}
    /\ tmp = Absent
    /\ loaded = LoadNothing(file)
    /\ written = NoData
    /\ http_session = FALSE
    /\ client = "new"
    /\ pc = [L \in Loops |-> "off"]
    /\ pidx = [L \in Loops |-> 0]
    /\ project_json = [L \in Loops |-> NoJson]
    /\ new_items = [L \in Loops |-> <<>>]
    /\ idx = [L \in Loops |-> 0]
    /\ ticks = 0
    /\ restarts = 0
    /\ tasks = NoTasks
    /\ sent_ok = {}
    /\ stopped = [saved |-> {}, unsaved |-> {}, at |-> "none"]
    /\ sends = [L \in Loops |-> <<>>]
    /\ report = [L \in Loops |-> NoReport]
    /\ clean = {}

\* cache.save()
Save ==
    /\ written = NoData
    /\ restarts = 0
    /\ file' = Saved(file, tmp, Data(modtale_seen, curseforge_seen)).file
    /\ tmp' = Saved(file, tmp, Data(modtale_seen, curseforge_seen)).tmp
    /\ written' = Cache
    /\ UNCHANGED <<cache, http_session, client, pc, locals, ticks, history, startup>>

\* save() on any cache, then load() on a fresh one
SpecRoundTrip == InitRoundTrip /\ [][Save \/ Restart]_vars

(* C8: persist/load round trip.  load() on a fresh cache after save() gives *)
(* every stream the seen set that was saved.                                *)
C8_RoundTrip ==
    (restarts > 0 /\ written # NoData) => Cache = written

\* a cache with a stream of several ids, one of them padded, and a stream
\* with none was saved and loaded
C8_Witness ==
    /\ restarts > 0
    /\ written # NoData
    /\ \E k \in DOMAIN modtale_seen :
         Cardinality(modtale_seen[k]) > 2 /\ v2_padded \in modtale_seen[k]
    /\ \E k \in DOMAIN curseforge_seen : curseforge_seen[k] = {}

(* ------------------------- a malformed cache file ---------------------- *)
\* a mapping of the persisted format: stream keys to arrays of id strings
WellFormedMapping(m) ==
    /\ m.t = "obj"
    /\ \A k \in DOMAIN m.o :
         /\ m.o[k].t = "arr"
         /\ \A e \in Range(m.o[k].a) : e.t = "str"

WellFormed(f) ==
    /\ f.complete
    /\ f.body.t = "obj"
    /\ \A name \in {"modtale_seen", "curseforge_seen"} :
         name \in DOMAIN f.body.o => WellFormedMapping(f.body.o[name])

Malformed(f) == f # Absent /\ ~WellFormed(f)

(* C9: corrupt-cache recovery.  While the cache file is malformed the seen  *)
(* sets load() left are all empty, and a batch that was sent and saved      *)
(* leaves a well-formed file.                                               *)
C9_CorruptCacheRecovery ==
    /\ Malformed(file) => loaded = [modtale_seen |-> NoSeen, curseforge_seen |-> NoSeen]
    /\ \A L \in Loops : report[L].outcome = "ok" => ~Malformed(file)

(* C10: a tick failure never stops a loop.  No loop that was started is     *)
(* ever ended by an error raised in one of its ticks.                       *)
C10_LoopsKeepTicking ==
    \A L \in Loops : pc[L] # "failed"

(* C11: first-observation flood.  A batch detected while the seen set of   *)
(* its stream is empty holds every id the fetched document lists (and a     *)
(* detection that found nothing then had a document without ids), and when  *)
(* a batch ended with every send returned, one send was made for each of    *)
(* its items and all their ids are in the seen set.                         *)
C11_FirstObservationFlood ==
    \A L \in Loops :
        /\ (pc[L] = "send" /\ sends[L] = <<>> /\ SeenIds(L, Key(L)) = {}) =>
              Range(Ids(L, new_items[L])) = CandidateIds(L, project_json[L])
        /\ (report[L].outcome = "nothing" /\ SeenIds(L, report[L].key) = {}) =>
              CandidateIds(L, report[L].json) = {}
        /\ (pc[L] \in SavePcs \/ report[L].outcome = "ok") =>
              LET order == IF pc[L] \in SavePcs THEN Ids(L, new_items[L])
                           ELSE report[L].order
                  sent == IF pc[L] \in SavePcs THEN Len(sends[L]) ELSE report[L].sent
                  key == IF pc[L] \in SavePcs THEN Key(L) ELSE report[L].key
              IN  /\ sent = Len(order)
                  /\ Range(order) \subseteq SeenIds(L, key)

\* a stream that had no id loaded and none sent before got a batch of three,
\* all three in the listing, sent and marked
C11_Witness ==
    \E L \in Loops :
        /\ report[L].outcome = "ok"
        /\ LoadedIds(L, report[L].key) = {}
        /\ Len(report[L].order) = 3
        /\ Range(report[L].order) = CandidateIds(L, report[L].json)
        /\ SentIds(L, report[L].key) = Range(report[L].order)
        /\ SeenIds(L, report[L].key) = Range(report[L].order)

(* C12: dedup within one fetch.  For both source kinds the batch computed   *)
(* from one fetched document holds no id twice, the item kept for an id is  *)
(* its first occurrence in the listing, and no id is sent twice in a batch. *)
C12_DedupWithinFetch ==
    \A L \in Loops :
        /\ \A a, b \in DOMAIN new_items[L] :
              a # b => IdOf(L, new_items[L][a]) # IdOf(L, new_items[L][b])
        /\ \A a \in DOMAIN new_items[L] :
              new_items[L][a]
                = Listing(L, project_json[L])
                    [Place(L, project_json[L], IdOf(L, new_items[L][a]))]
        /\ \A a, b \in DOMAIN sends[L] : a # b => sends[L][a] # sends[L][b]

(* C13: no tick before ready.  A loop is inside a tick only after the       *)
(* client's ready signal has arrived; a fetch returns a document and a send *)
(* returns only while the client is ready and the HTTP session exists; and  *)
(* a tick that begins while the session is absent changes nothing: no       *)
(* fetch, no send, no mark, no write, and the loop waits for its next tick. *)
InTick(L) == pc[L] \in {"channel", "fetch", "send"} \cup SavePcs

FetchReturned(L) ==
    /\ pc[L] = "fetch"
    /\ \/ pc'[L] = "send"
       \/ report'[L] # report[L] /\ report'[L].outcome = "nothing"

SendReturned(L) == Len(sends'[L]) > Len(sends[L])

C13_NoTickBeforeReady ==
    /\ [](\A L \in Loops : InTick(L) => client \in {"ready", "closed"})
    /\ [][\A L \in Loops :
             /\ (FetchReturned(L) \/ SendReturned(L)) =>
                   client = "ready" /\ http_session
             /\ (ticks' # ticks /\ ~http_session) =>
                   UNCHANGED <<cache, files, pc, locals, sent_ok, sends, clean>>]_vars

\* a loop began a tick after the session was closed, and a loop has sent
C13_Witness ==
    /\ \E L \in Loops : report[L].outcome = "nosession" /\ pc[L] = "idle"
    /\ sent_ok # {}
    /\ ~http_session

(* C14: exclusive persist under concurrency.  While one loop is inside     *)
(* save(), no step of the process marks an id or moves the other loop, so   *)
(* no save() step of the other loop comes in between; and every step that   *)
(* changes the cache file leaves in it the whole document of both seen      *)
(* dictionaries as they are in memory at that moment.                       *)
C14_ExclusivePersist ==
    [][restarts' = restarts =>
         /\ \A L \in Loops :
               pc[L] \in SavePcs =>
                  /\ UNCHANGED cache
                  /\ \A M \in Loops \ {L} :
                        pc'[M] = pc[M] /\ sends'[M] = sends[M]
         /\ file' # file =>
               /\ file' = Text(Data(modtale_seen', curseforge_seen'), TRUE)
               /\ Load(file') = [modtale_seen |-> modtale_seen',
                                 curseforge_seen |-> curseforge_seen']]_vars

\* a save() of the modtale loop has replaced the file while the curseforge
\* loop, one of its two sends returned, awaits the other: the file holds
\* the marks of both loops
C14_Witness ==
    /\ cfg = BothLoops
    /\ report["modtale"].outcome = "ok"
    /\ pc["curseforge"] = "send"
    /\ Len(sends["curseforge"]) = 1
    /\ sends["curseforge"][1] \in FileIds("curseforge", "cS")
    /\ Range(report["modtale"].order) \subseteq FileIds("modtale", "mS")
    /\ written = Cache

(* C15: a persistence failure is survivable.  When save() raises after a   *)
(* batch whose sends all returned, the loop goes on to its next project or  *)
(* its next tick and the client is as it was; as long as the process lives  *)
(* the ids of that batch stay in the seen set and are in no later batch;    *)
(* and the next step of either loop that changes the cache file writes      *)
(* those ids.                                                               *)
SaveFailed(L) ==
    pc[L] \in SavePcs /\ pc'[L] \notin SavePcs /\ report'[L].outcome = "savefail"

C15_SaveFailureSurvivable ==
    /\ [](\A L \in Loops :
             report[L].outcome = "savefail" =>
                /\ Range(report[L].order) \subseteq SeenIds(L, report[L].key)
                /\ (pc[L] = "send" /\ Key(L) = report[L].key) =>
                       Range(Ids(L, new_items[L])) \cap Range(report[L].order) = {})
    /\ [][restarts' = restarts =>
             \A L \in Loops :
                /\ SaveFailed(L) =>
                      /\ pc'[L] \in {"fetch", "idle"}
                      /\ UNCHANGED <<cache, files, client, http_session, sent_ok>>
                /\ (report[L].outcome = "savefail" /\ file' # file) =>
                      Range(report[L].order)
                         \subseteq IdsIn(IF L = "modtale" THEN Load(file').modtale_seen
                                         ELSE Load(file').curseforge_seen,
                                         report[L].key)]_vars

\* the save() of a batch of one loop raised and a later save() of the other
\* loop has written the ids of that batch
C15_Witness ==
    \E L \in Loops :
        /\ report[L].outcome = "savefail"
        /\ pc[L] = "idle"
        /\ \E M \in Loops \ {L} : report[M].outcome = "ok"
        /\ Range(report[L].order) \cap LoadedIds(L, report[L].key) = {}
        /\ Range(report[L].order) \subseteq FileIds(L, report[L].key)

(* --------------- the loops ticking for ever, failures ending ----------- *)
\* The process runs with one project for each loop and is not stopped.  The
\* first MaxTicks ticks are counted; until the last of them has begun a fetch
\* and a send may raise, afterwards they return.  save() may raise at any time.
MayFail == ticks < MaxTicks

InitLive ==
    /\ Init
    /\ cfg = BothLoops

\* a tick of the loop: tasks.loop calls the coroutine again after each interval
LiveTick(L) ==
    IF ticks < MaxTicks THEN TickStart(L) ELSE TickBegins(L) /\ UNCHANGED ticks

LoopStep(L) ==
    \/ before_loop(L)
    \/ LiveTick(L)
    \/ ChannelOk(L)
    \/ Fetch(L)
    \/ MayFail /\ FetchRaises(L)
    \/ SendOk(L)
    \/ MayFail /\ SendRaises(L)
    \/ SaveOpen(L)
    \/ SaveDump(L)
    \/ SaveReplace(L)
    \/ SaveRaises(L)

NextLive ==
    \/ RunBot
    \/ on_ready
    \/ \E L \in Loops : LoopStep(L)

\* the event loop runs every task that can run: the client connects and
\* becomes ready, and each loop takes its next step
Fairness ==
    /\ WF_vars(RunBot)
    /\ WF_vars(on_ready)
    /\ \A L \in Loops : WF_vars(LoopStep(L))

SpecLive == InitLive /\ [][NextLive]_vars /\ Fairness

\* the project of each loop in this configuration
LiveKey(L) == IF L = "modtale" THEN "mS" ELSE "cS"

\* the ids every document of the feed of a stream lists
AlwaysListed(L, key) ==
    {id \in UNION {CandidateIds(L, json) : json \in Feeds(L, key)} :
        \A json \in Feeds(L, key) : id \in CandidateIds(L, json)}

\* the last finished batch of the loop ended when the send of this id raised
SendFailedFor(L, id) ==
    /\ report[L].outcome = "sendfail"
    /\ report[L].order[report[L].sent + 1] = id

(* C16: retry liveness.  The id of an item whose send raised is not in the  *)
(* seen set when its batch has ended, and at the next detection of its      *)
(* stream whose document lists it, it is in the batch again; and when the   *)
(* item stays in the feed, fetches and sends at last always return and the  *)
(* loops keep ticking, the item is eventually sent and marked seen.         *)
C16_RetryLiveness ==
    /\ [](\A L \in Loops :
             report[L].outcome = "sendfail" =>
                LET id == report[L].order[report[L].sent + 1]
                IN  /\ pc[L] \in {"idle", "channel", "fetch"} =>
                          id \notin SeenIds(L, report[L].key)
                    /\ (pc[L] = "send" /\ sends[L] = <<>> /\ Key(L) = report[L].key
                          /\ id \in CandidateIds(L, project_json[L])) =>
                          id \in Range(Ids(L, new_items[L])))
    /\ \A L \in Loops : \A id \in AlwaysListed(L, LiveKey(L)) :
          SendFailedFor(L, id) ~>
             (id \in SentIds(L, LiveKey(L)) /\ id \in SeenIds(L, LiveKey(L)))

\* the send of an item that every document lists raised, and the next batch
\* of its stream has sent and marked it and is about to be saved
C16_Witness ==
    \E L \in Loops : \E id \in AlwaysListed(L, LiveKey(L)) :
        /\ ~MayFail
        /\ SendFailedFor(L, id)
        /\ pc[L] \in SavePcs
        /\ id \in Range(sends[L])
        /\ id \in SentIds(L, LiveKey(L))
        /\ id \in SeenIds(L, LiveKey(L))

(* C17: a fetch failure changes nothing.  The step in which the fetch of a  *)
(* project raises sends nothing, leaves both seen dictionaries, the cache   *)
(* file and the temp file as they were, and takes the loop to the fetch of  *)
(* its next project or to the end of the tick, never into a send or a       *)
(* save(); and every tick that reaches the for loop starts at the first     *)
(* project and ends only after the last, so the project is fetched again.   *)
FetchFailed(L) ==
    /\ pc[L] = "fetch"
    /\ pc'[L] # "send"
    /\ pc'[L] # pc[L] \/ pidx'[L] # pidx[L]
    /\ report'[L].outcome = "fetchfail"

C17_FetchFailureChangesNothing ==
    [][restarts' = restarts =>
         \A L \in Loops :
            /\ FetchFailed(L) =>
                  /\ UNCHANGED <<cache, files, sent_ok, sends>>
                  /\ pc'[L] \in {"fetch", "idle"}
                  /\ pc'[L] = "fetch" => pidx'[L] = pidx[L] + 1
            /\ (pc[L] = "channel" /\ pc'[L] = "fetch") => pidx'[L] = 1
            /\ (InTick(L) /\ pc'[L] = "idle") =>
                  pidx[L] = Len(Projects(L))]_vars

\* the last batch of the stream ended at a fetch that raised; in the next
\* tick the stream was fetched again and its new items are being sent
C17_Witness ==
    \E L \in Loops :
        /\ report[L].outcome = "fetchfail"
        /\ pc[L] = "send"
        /\ Key(L) = report[L].key
        /\ ticks > 1

(* C18: per-stream isolation inside a tick.  When the fetch, a send or the *)
(* save() of a project raises and the project is not the last of the list,  *)
(* the loop goes to the fetch of the next project in the same tick; no step *)
(* of a loop changes the seen set of a project other than the one the loop  *)
(* is at; and the batch of every project is what detection gives from its   *)
(* own document and its own seen set.                                       *)
SendFailed(L) == pc[L] = "send" /\ pc'[L] \notin {"send", "save_open"}

ProjectFailed(L) == FetchFailed(L) \/ SendFailed(L) \/ SaveFailed(L)

C18_PerStreamIsolation ==
    /\ [](\A L \in Loops :
             (pc[L] = "send" /\ sends[L] = <<>>) =>
                new_items[L] = Dispatch(L, project_json[L]))
    /\ [][restarts' = restarts =>
             \A L \in Loops :
                /\ (ProjectFailed(L) /\ pidx[L] < Len(Projects(L))) =>
                      pc'[L] = "fetch" /\ pidx'[L] = pidx[L] + 1
                /\ \A k \in DOMAIN SeenOf(L) :
                      (pidx[L] = 0 \/ k # Key(L)) => SeenOf(L)'[k] = SeenOf(L)[k]]_vars

\* a send of the first project of a loop raised, and in the same tick the
\* second project was fetched and all its new items were sent
C18_Witness ==
    \E L \in Loops :
        /\ Len(Projects(L)) = 2
        /\ report[L].outcome = "sendfail"
        /\ report[L].key = Projects(L)[1]
        /\ pidx[L] = 2
        /\ pc[L] \in SavePcs
        /\ Len(sends[L]) = Len(new_items[L])

(* C19: persist only when something was marked.  The step in which a fetch *)
(* returns a document without a new item sends nothing, leaves the ids of   *)
(* every seen set, the cache file and the temp file as they were and does   *)
(* not enter save(); save() is entered only by the step in which the last   *)
(* send of a batch returns, is not entered again before the batch has       *)
(* ended, and the cache file changes only at the os.replace of a save().    *)
NothingNew(L) ==
    /\ pc[L] = "fetch"
    /\ pc'[L] # "send"
    /\ pc'[L] # pc[L] \/ pidx'[L] # pidx[L]
    /\ report'[L].outcome = "nothing"

C19_PersistOnlyWhenMarked ==
    [][restarts' = restarts =>
         /\ \A L \in Loops :
               /\ NothingNew(L) =>
                     /\ UNCHANGED <<files, sent_ok, sends>>
                     /\ pc'[L] \in {"fetch", "idle"}
                     /\ \A st \in Streams :
                           IdsIn(SeenOf(st[1])', st[2]) = IdsIn(SeenOf(st[1]), st[2])
               /\ (pc'[L] = "save_open" /\ pc[L] # "save_open") =>
                     /\ pc[L] = "send"
                     /\ idx[L] = Len(new_items[L])
                     /\ Len(sends'[L]) = Len(new_items[L])
               /\ (pc[L] = "save_open" /\ pc'[L] # pc[L]) =>
                     pc'[L] \in {"save_dump", "fetch", "idle"}
               /\ (pc[L] = "save_dump" /\ pc'[L] # pc[L]) =>
                     pc'[L] \in {"save_replace", "fetch", "idle"}
               /\ (pc[L] = "save_replace" /\ pc'[L] # pc[L]) =>
                     pc'[L] \in {"fetch", "idle"}
         /\ file' # file => \E L \in Loops : pc[L] = "save_replace"]_vars

\* one loop fetched a document whose ids were all loaded at the start and
\* ended its tick; the other loop sent a batch and its save() wrote the file
C19_Witness ==
    \E L \in Loops :
        /\ report[L].outcome = "nothing"
        /\ pc[L] = "idle"
        /\ CandidateIds(L, report[L].json) # {}
        /\ CandidateIds(L, report[L].json) \subseteq LoadedIds(L, report[L].key)
        /\ SentIds(L, report[L].key) = {}
        /\ \E M \in Loops \ {L} :
              /\ report[M].outcome = "ok"
              /\ Range(report[M].order) \subseteq FileIds(M, report[M].key)
              /\ written = Cache

(* C20: a single loop instance across repeated ready events.  Of each loop *)
(* at most one task that is not done exists, and exactly one while the loop *)
(* is running; a loop has been started only if its project list is not      *)
(* empty; and a loop is inside a tick only as that one task, so two ticks   *)
(* of the same loop never overlap.                                          *)
Instances(L) == tasks[L].started - tasks[L].done

C20_SingleLoopInstance ==
    \A L \in Loops :
        /\ Instances(L) \in {0, 1}
        /\ is_running(L) <=> Instances(L) = 1
        /\ tasks[L].started > 0 => Projects(L) # <<>>
        /\ pc[L] # "off" => Projects(L) # <<>>
        /\ InTick(L) => Instances(L) = 1

\* the task of the modtale loop ended and a second ready event started the
\* loop again, while the curseforge loop, running since the first ready
\* event, is inside a tick and was not started again
C20_Witness ==
    /\ cfg = BothLoops
    /\ tasks["modtale"] = [started |-> 2, done |-> 1]
    /\ tasks["curseforge"] = [started |-> 1, done |-> 0]
    /\ pc["modtale"] = "before"
    /\ InTick("curseforge")

====
